---- MODULE Spec2Model ----
(***************************************************************************)
(* Model of src/etl.py: the fetch-cache-retry ETL pipeline (search,        *)
(* per-id metadata fetch, deduplicate, per-id FASTA fetch, load to MySQL   *)
(* and to ElasticSearch).                                                  *)
(*                                                                         *)
(* Three specifications share the variables:                               *)
(*   SpecRetry   retry() applied to every behaviour of fn                  *)
(*   SpecDedupe  deduplicate() applied to every bounded record list       *)
(*   Spec        main(), run MaxRuns times over the persistent cache      *)
(***************************************************************************)
EXTENDS Naturals, Sequences, FiniteSets, TLC

VARIABLES
    retryIn,      \* SpecRetry: the arguments of retry: [attempts, fn]
    retryOut,     \* SpecRetry: what the call of retry did and returned
    dedupeIn,     \* SpecDedupe: the argument of deduplicate
    dedupeOut,    \* SpecDedupe: what deduplicate returned
    run,          \* Spec: number of pipeline runs started
    pc,           \* Spec: where main is
    exit,         \* Spec: how the last finished run ended
    netCalls,     \* Spec: requests.get calls of the fetcher under way so far
    metaCache,    \* cache/metadata/<id>.json, per id
    fastaCache,   \* cache/fasta/<id>.fasta, per id
    ids,          \* fetchMetadata: ids of the search response
    mdone,        \* fetchMetadata: per id handled, what cache or network delivered
    records,      \* fetchMetadata: records
    uniqueMetadata,       \* main: uniqueMetadata
    fids,         \* main: ids, the argument of fetchFasta
    fdone,        \* fetchFasta: per id handled, what cache or network delivered
    results,      \* fetchFasta: results
    last,         \* what the last iteration of the fetcher loop under way did
    mysql,        \* what the call of loadToMySQLFull did
    es,           \* what the call of loadToElasticSearch did
    sink,         \* SpecLoad: the store the loads go to
    table,        \* SpecLoad: the rows of the MySQL table ncbi_records
    index,        \* SpecLoad: the documents of the Elasticsearch index
    latest,       \* SpecLoad: per uid, what the last load that held it gave
    allOk,        \* SpecLoad: every load so far succeeded
    replaced      \* SpecLoad: uids whose stored metadata the last load changed

pureVars == <<retryIn, retryOut, dedupeIn, dedupeOut>>
cacheVars == <<metaCache, fastaCache>>
metaVars == <<ids, mdone, records>>
fastaVars == <<uniqueMetadata, fids, fdone, results>>
loadVars == <<mysql, es>>
sinkVars == <<sink, table, index, latest, allOk, replaced>>
vars == <<pureVars, run, pc, exit, netCalls, cacheVars, metaVars, fastaVars, last,
          loadVars, sinkVars>>

(***************************************************************************)
(* Bounds of the model.                                                    *)
(***************************************************************************)
MaxAttempts == 5    \* SpecRetry: attempts ranges over 1..MaxAttempts
MaxLen == 3         \* SpecDedupe: record lists of up to MaxLen records
MaxIds == 2         \* Spec: the search returns up to MaxIds ids
MaxRuns == 2        \* Spec: the pipeline is run up to MaxRuns times
MaxBatch == 2       \* SpecLoad: a load is given lists of up to MaxBatch items

(***************************************************************************)
(* Python values: None, str, and a metadata record (a dict; of its fields  *)
(* the model keeps uid and a version v that tells two records of the same  *)
(* uid apart).                                                             *)
(***************************************************************************)
PyNone == [t |-> "None"]
Str(s) == [t |-> "str", s |-> s]
Rec(uid, v) == [t |-> "dict", uid |-> uid, v |-> v]

\* Python truthiness, as used by `if record:`, `if fasta:`, `x or ""`.
Truthy(x) ==
    CASE x.t = "None" -> FALSE
      [] x.t = "str" -> x.s # ""
      [] OTHER -> TRUE

Ids == {"A", "B"}
NoUid == ""         \* record.get("uid") of a record without (or with empty) uid
Versions == {1, 2}

(***************************************************************************)
(* retry (src/etl.py 22-34).  fn is modelled by the sequence of outcomes   *)
(* of its successive invocations: it raises, or it returns a value.        *)
(***************************************************************************)
Raise(e) == [k |-> "raise", err |-> e]
Return(x) == [k |-> "return", val |-> x]

\* for i in range(attempts)
RangeLenShort(attempts) == attempts - 1
RangeLen(attempts) == attempts

\* if i < attempts - 1: ... time.sleep(delay)
ShouldSleepAlways(i, attempts) == TRUE
ShouldSleep(i, attempts) == i < attempts - 1

RetryStart ==
    [calls |-> 0, warnings |-> 0, infos |-> 0, delays |-> 0, last_error |-> PyNone]

\* retry, were it to take a falsy return value for a failed attempt
\* (`result = fn(); if result: return result`)
RECURSIVE RetryLoopUntilTruthy(_, _, _, _)
RetryLoopUntilTruthy(fn, attempts, i, st) ==
    IF i >= RangeLen(attempts)
    THEN [result |-> PyNone, exhausted |-> TRUE, calls |-> st.calls,
          warnings |-> st.warnings, infos |-> st.infos, delays |-> st.delays,
          errors |-> 1, last_error |-> st.last_error]
    ELSE LET o == fn[st.calls + 1] IN
         IF o.k = "return" /\ Truthy(o.val)
         THEN [result |-> o.val, exhausted |-> FALSE, calls |-> st.calls + 1,
               warnings |-> st.warnings, infos |-> st.infos, delays |-> st.delays,
               errors |-> 0, last_error |-> st.last_error]
         ELSE LET sl == IF ShouldSleep(i, attempts) THEN 1 ELSE 0 IN
              RetryLoopUntilTruthy(fn, attempts, i + 1,
                        [calls |-> st.calls + 1, warnings |-> st.warnings + 1,
                         infos |-> st.infos + sl, delays |-> st.delays + sl,
                         last_error |-> st.last_error])

RECURSIVE RetryLoop(_, _, _, _)
RetryLoop(fn, attempts, i, st) ==
    IF i >= RangeLen(attempts)
    THEN \* logger.error("All attempts failed"); return None
         [result |-> PyNone, exhausted |-> TRUE, calls |-> st.calls,
          warnings |-> st.warnings, infos |-> st.infos, delays |-> st.delays,
          errors |-> 1, last_error |-> st.last_error]
    ELSE LET o == fn[st.calls + 1] IN
         IF o.k = "return"
         THEN \* return fn()
              [result |-> o.val, exhausted |-> FALSE, calls |-> st.calls + 1,
               warnings |-> st.warnings, infos |-> st.infos, delays |-> st.delays,
               errors |-> 0, last_error |-> st.last_error]
         ELSE LET sl == IF ShouldSleep(i, attempts) THEN 1 ELSE 0 IN
              RetryLoop(fn, attempts, i + 1,
                        [calls |-> st.calls + 1, warnings |-> st.warnings + 1,
                         infos |-> st.infos + sl, delays |-> st.delays + sl,
                         last_error |-> Str(o.err)])

\* retry, were a request that failed every attempt to be retried as a whole
retryTwice(fn, attempts) ==
    LET r == RetryLoop(fn, attempts, 0, RetryStart) IN
    IF r.exhausted THEN [r EXCEPT !.calls = 2 * r.calls] ELSE r

retry(fn, attempts) == RetryLoop(fn, attempts, 0, RetryStart)

(***************************************************************************)
(* deduplicate (src/etl.py 146-152).  A Python dict keeps its keys in      *)
(* insertion order; assigning to an existing key replaces the value and    *)
(* leaves the key where it is.  The dict is a sequence of <<key, value>>.  *)
(***************************************************************************)
DictHas(d, key) == \E j \in 1..Len(d) : d[j][1] = key

\* unique[uid] = record, with the key moved to the end on overwrite
DictPutMoveToEnd(d, key, val) ==
    Append(SelectSeq(d, LAMBDA e : e[1] # key), <<key, val>>)

\* unique[uid] = record, keeping the first value of a key
DictPutKeepFirst(d, key, val) ==
    IF DictHas(d, key) THEN d ELSE Append(d, <<key, val>>)

\* unique[uid] = record
DictPut(d, key, val) ==
    IF DictHas(d, key)
    THEN [j \in 1..Len(d) |-> IF d[j][1] = key THEN <<key, val>> ELSE d[j]]
    ELSE Append(d, <<key, val>>)

\* list(unique.values())
DictValues(d) == [j \in 1..Len(d) |-> d[j][2]]

RECURSIVE DedupeLoop(_, _, _)
DedupeLoop(metadata, n, unique) ==
    IF n > Len(metadata) THEN unique
    ELSE LET record == metadata[n]
             uid == record.uid
         IN  DedupeLoop(metadata, n + 1,
                        IF uid # NoUid THEN DictPut(unique, uid, record) ELSE unique)

deduplicate(metadata) == DictValues(DedupeLoop(metadata, 1, <<>>))

(***************************************************************************)
(* The cache: one file per id and payload kind (src/etl.py 66-78, 92-96,   *)
(* 105-117, 136-140).  A file is absent, holds what was written, or, after *)
(* a write that failed part-way, holds a truncated content: for metadata a *)
(* text json.load fails on, for FASTA the empty text.                      *)
(***************************************************************************)
Absent == [t |-> "absent"]
Corrupt == [t |-> "corrupt"]

\* cacheFile.exists(), were it to look in another directory than the writes
ExistsNever(entry) == FALSE

\* cacheFile.exists(), were it to test that the file can be parsed
ExistsIfReadable(entry) == entry \notin {Absent, Corrupt}

\* cacheFile.exists()
Exists(entry) == entry # Absent

\* try: record = json.load(f) except: warning.  ioOk: open and read succeed.
ReadMeta(entry, ioOk) ==
    IF ioOk /\ entry # Corrupt
    THEN [ok |-> TRUE, val |-> entry]
    ELSE [ok |-> FALSE, val |-> PyNone]

\* try: fasta = f.read() except: warning
ReadFasta(entry, ioOk) ==
    IF ioOk
    THEN [ok |-> TRUE, val |-> entry]
    ELSE [ok |-> FALSE, val |-> Str("")]

\* try: open(cacheFile, "w"); json.dump / f.write except: error.  The write
\* succeeds, fails before the file is created, or fails after.
WriteOutcomes == {"ok", "open_failed", "partial"}

WriteMeta(w, record) ==
    CASE w = "ok" -> record
      [] w = "open_failed" -> Absent
      [] OTHER -> Corrupt

WriteFasta(w, fasta) ==
    CASE w = "ok" -> fasta
      [] w = "open_failed" -> Absent
      [] OTHER -> Str("")

(***************************************************************************)
(* The network.  A fetch function (fetch_summary, fetch_fasta_func) raises *)
(* on its first k invocations and returns x from then on.                  *)
(***************************************************************************)
Attempts == 5       \* retry(..., attempts=5, delay=5)

Script(k, x) == [n \in 1..Attempts |-> IF n <= k THEN Raise("err") ELSE Return(x)]

\* The numbers of failures tried in a pipeline run: none, all but the last
\* attempt, every attempt.  (SpecRetry runs retry on every behaviour of fn.)
FailureCounts == {0, Attempts - 1, Attempts}

NetBehaviours(values) == {Script(k, x) : k \in FailureCounts, x \in values}

\* summaryResponse.get("result", {}).get(id_): the record of the id, or None
SummaryValues(id) == {PyNone} \cup {Rec(id, v) : v \in Versions}

\* resp.text
FastaValues == {Str(""), Str("s1")}

\* what the network delivers within the attempts made: the value of the
\* first invocation that returns, None when none does
FirstReturn(fn) ==
    IF \E n \in 1..Len(fn) : fn[n].k = "return"
    THEN fn[CHOOSE n \in 1..Len(fn) :
                /\ fn[n].k = "return"
                /\ \A m \in 1..(n - 1) : fn[m].k = "raise"].val
    ELSE PyNone

\* how the payload of an id came about: read from the cache, the cache read
\* failed, fetched, the fetch returned an empty value, every attempt raised
How(entry, readOk, fn) ==
    IF Exists(entry)
    THEN IF readOk THEN "cache" ELSE "read_failed"
    ELSE IF \A n \in 1..Len(fn) : fn[n].k = "raise" THEN "exhausted"
         ELSE IF Truthy(FirstReturn(fn)) THEN "net" ELSE "empty"

NoRetry ==
    [result |-> PyNone, exhausted |-> FALSE, calls |-> 0, warnings |-> 0,
     infos |-> 0, delays |-> 0, errors |-> 0, last_error |-> PyNone]

(***************************************************************************)
(* fetchMetadata: the body of `for id_ in ids` (src/etl.py 70-101).        *)
(***************************************************************************)
\* the loop body, were it to write the cache file whatever retry returned
MetaBodyCachesAlways(entry, ioOk, fn, w) ==
    IF Exists(entry)
    THEN LET rd == ReadMeta(entry, ioOk) IN
         [record |-> rd.val, entry |-> entry, existed |-> TRUE,
          read_failed |-> ~rd.ok, r |-> NoRetry]
    ELSE LET r == retry(fn, Attempts) IN
         [record |-> r.result, entry |-> WriteMeta(w, r.result),
          existed |-> FALSE, read_failed |-> FALSE, r |-> r]

MetaBody(entry, ioOk, fn, w) ==
    IF Exists(entry)
    THEN LET rd == ReadMeta(entry, ioOk) IN
         [record |-> rd.val, entry |-> entry, existed |-> TRUE,
          read_failed |-> ~rd.ok, r |-> NoRetry]
    ELSE LET r == retry(fn, Attempts) IN
         [record |-> r.result,
          entry |-> IF Truthy(r.result) THEN WriteMeta(w, r.result) ELSE entry,
          existed |-> FALSE, read_failed |-> FALSE, r |-> r]

\* if record: records.append(record)   (and `continue` when the fetch gave none)
MetaAppendAlways(recs, record) == Append(recs, record)
MetaAppend(recs, record) == IF Truthy(record) THEN Append(recs, record) ELSE recs

(***************************************************************************)
(* fetchFasta: the body of `for uid in ids` (src/etl.py 109-143).          *)
(***************************************************************************)
\* retry(...) or ""
OrEmpty(x) == IF Truthy(x) THEN x ELSE Str("")

FastaBody(entry, ioOk, fn, w) ==
    IF Exists(entry)
    THEN LET rd == ReadFasta(entry, ioOk) IN
         [fasta |-> rd.val, entry |-> entry, existed |-> TRUE,
          read_failed |-> ~rd.ok, r |-> NoRetry]
    ELSE LET r == retry(fn, Attempts)
             fasta == OrEmpty(r.result)
         IN  [fasta |-> fasta,
              entry |-> IF Truthy(fasta) THEN WriteFasta(w, fasta) ELSE entry,
              existed |-> FALSE, read_failed |-> FALSE, r |-> r]

\* results.append({"uid": uid, "fasta": fasta})
FastaAppendIfAny(res, uid, fasta) ==
    IF Truthy(fasta) THEN Append(res, [uid |-> uid, fasta |-> fasta]) ELSE res
FastaAppend(res, uid, fasta) == Append(res, [uid |-> uid, fasta |-> fasta])

(***************************************************************************)
(* loadToMySQLFull (src/etl.py 154-179).  failAt: the statement of the try *)
(* block that raises, if any: connect(), conn.cursor(), or one of the      *)
(* statements after them (an execute or a commit: "query").  conn and      *)
(* cursor are bound only once their assignment has run; the finally block  *)
(* reads both.                                                             *)
(***************************************************************************)
MySQLFailPoints == {"none", "connect", "cursor", "query"}

loadToMySQLFull(failAt) ==
    LET connBound == failAt # "connect"
        cursorBound == failAt \notin {"connect", "cursor"}
    IN  [invoked |-> TRUE,
         failAt |-> failAt,
         \* except Exception as e: logger.error(...)
         logged_error |-> failAt # "none",
         conn_opened |-> connBound,
         cursor_opened |-> cursorBound,
         \* finally: cursor.close() raises UnboundLocalError when cursor is
         \* unbound, and conn.close() is then not reached
         cursor_closed |-> cursorBound,
         conn_closed |-> connBound /\ cursorBound,
         raised |-> ~cursorBound,
         committed |-> failAt = "none"]

(***************************************************************************)
(* loadToElasticSearch (src/etl.py 181-205).  No try block: an error of    *)
(* the client propagates; errors reported in the bulk response are logged. *)
(***************************************************************************)
ESOutcomes == {"ok", "bulk_errors", "raise"}

loadToElasticSearch(outcome) ==
    [invoked |-> TRUE, outcome |-> outcome,
     logged_error |-> outcome = "bulk_errors",
     raised |-> outcome = "raise"]

(***************************************************************************)
(* What the loaders leave in the stores (src/etl.py 168-174, 191-201).     *)
(* The table is the set of its rows, the index the set of its documents.   *)
(***************************************************************************)
\* json.dumps(record): the JSON text of the record
JsonDumps(record) == [t |-> "json", uid |-> record.uid, v |-> record.v]

\* fastaMap = {item["uid"]: item["fasta"] for item in fastaData}
Missing == [t |-> "missing"]

RECURSIVE FastaMapLoop(_, _, _)
FastaMapLoop(m, fastaData, j) ==
    IF j > Len(fastaData) THEN m
    ELSE FastaMapLoop([m EXCEPT ![fastaData[j].uid] = fastaData[j].fasta],
                      fastaData, j + 1)

fastaMap(fastaData) == FastaMapLoop([u \in Ids |-> Missing], fastaData, 1)

\* fastaMap.get(uid)
FastaMapGet(m, uid) == IF m[uid] = Missing THEN PyNone ELSE m[uid]

\* INSERT in place of REPLACE, on a table without the primary key
InsertInto(rows, row) == rows \cup {row}

\* REPLACE INTO ncbi_records, uid being the primary key: the row of that
\* uid, if there is one, is deleted and the new row inserted
ReplaceInto(rows, row) == {r \in rows : r.uid # row.uid} \cup {row}

\* for record in metadata: cursor.execute(REPLACE ...); then conn.commit()
RECURSIVE MySQLLoop(_, _, _, _)
MySQLLoop(rows, metadata, m, j) ==
    IF j > Len(metadata) THEN rows
    ELSE LET record == metadata[j]
             uid == record.uid
             fasta == FastaMapGet(m, uid)
         IN  MySQLLoop(ReplaceInto(rows, [uid |-> uid,
                                          metadata |-> JsonDumps(record),
                                          fasta |-> fasta]),
                       metadata, m, j + 1)

\* bulk_ops: per record the action line {"index": {"_id": uid}} and the
\* source line {"metadata": record, "fasta": fasta}
BulkOps(metadata, fastaData) ==
    LET m == fastaMap(fastaData) IN
    [j \in 1..Len(metadata) |->
        [id |-> metadata[j].uid,
         source |-> [metadata |-> metadata[j],
                     fasta |-> FastaMapGet(m, metadata[j].uid)]]]

\* an index operation with an _id: the document of that _id is created, or
\* replaced when there is one
IndexDoc(docs, op) == {d \in docs : d.id # op.id} \cup {op}

\* es_client.bulk(body=bulk_ops): the operations are applied in order; the
\* items in `failed` are reported as errors and leave the index as it was
RECURSIVE BulkLoop(_, _, _, _)
BulkLoop(docs, ops, failed, j) ==
    IF j > Len(ops) THEN docs
    ELSE BulkLoop(IF j \in failed THEN docs ELSE IndexDoc(docs, ops[j]),
                  ops, failed, j + 1)

(***************************************************************************)
(* Spec: main (src/etl.py 207-232), run up to MaxRuns times.  The cache    *)
(* persists from one run to the next; everything else is per run.          *)
(***************************************************************************)
NotInvoked == [invoked |-> FALSE]
NoIteration == [kind |-> "none"]

IdLists == UNION {[1..n -> Ids] : n \in 0..MaxIds}

RunLocalsInit ==
    /\ ids = <<>>
    /\ mdone = <<>>
    /\ records = <<>>
    /\ uniqueMetadata = <<>>
    /\ fids = <<>>
    /\ fdone = <<>>
    /\ results = <<>>
    /\ last = NoIteration
    /\ mysql = NotInvoked
    /\ es = NotInvoked

PipelineIdle ==
    /\ run = 0
    /\ pc = "idle"
    /\ exit = "none"
    /\ netCalls = 0
    /\ metaCache = [i \in Ids |-> Absent]
    /\ fastaCache = [i \in Ids |-> Absent]
    /\ RunLocalsInit

PureIdle ==
    /\ retryIn = [attempts |-> 1, fn |-> <<Raise("err")>>]
    /\ retryOut = [ran |-> FALSE]
    /\ dedupeIn = <<>>
    /\ dedupeOut = [ran |-> FALSE]

\* Spec leaves the content of the stores out; SpecLoad is about it.
SinksIdle ==
    /\ sink = "none"
    /\ table = {}
    /\ index = {}
    /\ latest = <<>>
    /\ allOk = TRUE
    /\ replaced = {}

Init == PureIdle /\ PipelineIdle /\ SinksIdle

\* if __name__ == "__main__": main()
StartRun ==
    /\ pc = "idle"
    /\ run < MaxRuns
    /\ run' = run + 1
    /\ pc' = "search"
    /\ exit' = "running"
    /\ netCalls' = 0
    /\ ids' = <<>>
    /\ mdone' = <<>>
    /\ records' = <<>>
    /\ uniqueMetadata' = <<>>
    /\ fids' = <<>>
    /\ fdone' = <<>>
    /\ results' = <<>>
    /\ last' = NoIteration
    /\ mysql' = NotInvoked
    /\ es' = NotInvoked
    /\ UNCHANGED <<sinkVars, pureVars, cacheVars>>

\* fetchMetadata, the search request (src/etl.py 58-63): requests.get or
\* response.json() raises, or the response holds a list of ids
Search ==
    /\ pc = "search"
    /\ \/ /\ pc' = "raised"
          /\ UNCHANGED ids
       \/ /\ \E l \in IdLists : ids' = l
          /\ pc' = "meta"
    /\ netCalls' = netCalls + 1
    /\ UNCHANGED <<sinkVars, pureVars, run, exit, cacheVars, mdone, records, fastaVars,
                   last, loadVars>>

\* fetchMetadata, one iteration of the loop over ids
FetchMetadataId ==
    /\ pc = "meta"
    /\ Len(mdone) < Len(ids)
    /\ LET id == ids[Len(mdone) + 1]
           entry == metaCache[id]
       IN  \E ioOk \in (IF Exists(entry) THEN BOOLEAN ELSE {TRUE}),
              fn \in (IF Exists(entry) THEN {Script(Attempts, PyNone)}
                      ELSE NetBehaviours(SummaryValues(id))) :
              \E w \in (IF Exists(entry) \/ ~Truthy(FirstReturn(fn)) THEN {"ok"}
                       ELSE WriteOutcomes) :
             LET b == MetaBody(entry, ioOk, fn, w) IN
             /\ metaCache' = [metaCache EXCEPT ![id] = b.entry]
             /\ records' = MetaAppend(records, b.record)
             /\ mdone' = Append(mdone,
                    [how |-> How(entry, ReadMeta(entry, ioOk).ok, fn),
                     val |-> IF Exists(entry) THEN ReadMeta(entry, ioOk).val
                             ELSE FirstReturn(fn)])
             /\ last' = [kind |-> "meta", id |-> id, existed |-> b.existed,
                         read_failed |-> b.read_failed, r |-> b.r,
                         out |-> b.record, before |-> entry]
             /\ netCalls' = netCalls + b.r.calls
    /\ UNCHANGED <<sinkVars, pureVars, run, pc, exit, fastaCache, ids, fastaVars, loadVars>>

\* main without `if not metadata: return`: goes on to deduplicate and load
MainNoMetadataGoesOn ==
    /\ pc = "meta"
    /\ Len(mdone) = Len(ids)
    /\ records = <<>>
    /\ pc' = "fasta"
    /\ UNCHANGED <<sinkVars, pureVars, run, netCalls, exit, cacheVars, metaVars, fastaVars, last, loadVars>>

\* main: if not metadata: return   (also after the search returned no ids)
MainNoMetadata ==
    /\ pc = "meta"
    /\ Len(mdone) = Len(ids)
    /\ records = <<>>
    /\ pc' = "idle"
    /\ exit' = "no_metadata"
    /\ UNCHANGED <<sinkVars, pureVars, run, netCalls, cacheVars, metaVars, fastaVars, last, loadVars>>

\* main: uniqueMetadata = deduplicate(metadata); ids = [uid of each]
Deduplicate ==
    /\ pc = "meta"
    /\ Len(mdone) = Len(ids)
    /\ records # <<>>
    /\ uniqueMetadata' = deduplicate(records)
    /\ fids' = LET u == SelectSeq(deduplicate(records), LAMBDA rec : rec.uid # NoUid)
               IN  [j \in 1..Len(u) |-> u[j].uid]
    /\ pc' = "fasta"
    /\ last' = NoIteration
    /\ netCalls' = 0       \* fetchMetadata has returned; fetchFasta counts anew
    /\ UNCHANGED <<sinkVars, pureVars, run, exit, cacheVars, metaVars, fdone, results,
                   loadVars>>

\* fetchFasta, one iteration of the loop over ids
FetchFastaId ==
    /\ pc = "fasta"
    /\ Len(fdone) < Len(fids)
    /\ LET uid == fids[Len(fdone) + 1]
           entry == fastaCache[uid]
       IN  \E ioOk \in (IF Exists(entry) THEN BOOLEAN ELSE {TRUE}),
              fn \in (IF Exists(entry) THEN {Script(Attempts, PyNone)}
                      ELSE NetBehaviours(FastaValues)) :
              \E w \in (IF Exists(entry) \/ ~Truthy(FirstReturn(fn)) THEN {"ok"}
                       ELSE WriteOutcomes) :
             LET b == FastaBody(entry, ioOk, fn, w) IN
             /\ fastaCache' = [fastaCache EXCEPT ![uid] = b.entry]
             /\ results' = FastaAppend(results, uid, b.fasta)
             /\ fdone' = Append(fdone,
                    [how |-> How(entry, ReadFasta(entry, ioOk).ok, fn),
                     val |-> IF Exists(entry) THEN ReadFasta(entry, ioOk).val
                             ELSE FirstReturn(fn)])
             /\ last' = [kind |-> "fasta", id |-> uid, existed |-> b.existed,
                         read_failed |-> b.read_failed, r |-> b.r,
                         out |-> b.fasta, before |-> entry]
             /\ netCalls' = netCalls + b.r.calls
    /\ UNCHANGED <<sinkVars, pureVars, run, pc, exit, metaCache, metaVars, uniqueMetadata, fids,
                   loadVars>>

\* main: loadToMySQLFull(uniqueMetadata, fastaData)
LoadToMySQLFull ==
    /\ pc = "fasta"
    /\ Len(fdone) = Len(fids)
    /\ \E failAt \in MySQLFailPoints :
          /\ mysql' = loadToMySQLFull(failAt) @@
                        [metadata |-> uniqueMetadata, fastaData |-> results]
          /\ pc' = IF loadToMySQLFull(failAt).raised THEN "raised" ELSE "es"
    /\ last' = NoIteration
    /\ netCalls' = 0       \* fetchFasta has returned
    /\ UNCHANGED <<sinkVars, pureVars, run, exit, cacheVars, metaVars, fastaVars, es>>

\* main: loadToElasticSearch(uniqueMetadata, fastaData), then the last log line
LoadToElasticSearch ==
    /\ pc = "es"
    /\ \E outcome \in ESOutcomes :
          /\ es' = loadToElasticSearch(outcome) @@
                     [metadata |-> uniqueMetadata, fastaData |-> results]
          /\ pc' = IF outcome = "raise" THEN "raised" ELSE "idle"
          /\ exit' = IF outcome = "raise" THEN exit ELSE "completed"
    /\ UNCHANGED <<sinkVars, pureVars, run, netCalls, cacheVars, metaVars, fastaVars, last, mysql>>

\* __main__ without the try/except: the error reaches the interpreter
CatchTopLevelMissing ==
    /\ pc = "raised"
    /\ pc' = "idle"
    /\ exit' = "uncaught"
    /\ UNCHANGED <<sinkVars, pureVars, run, netCalls, cacheVars, metaVars, fastaVars, last, loadVars>>

\* except Exception as err: logger.error("ETL failed", ...)
CatchTopLevel ==
    /\ pc = "raised"
    /\ pc' = "idle"
    /\ exit' = "failed"
    /\ UNCHANGED <<sinkVars, pureVars, run, netCalls, cacheVars, metaVars, fastaVars, last, loadVars>>

Next ==
    \/ StartRun
    \/ Search
    \/ FetchMetadataId
    \/ MainNoMetadata
    \/ Deduplicate
    \/ FetchFastaId
    \/ LoadToMySQLFull
    \/ LoadToElasticSearch
    \/ CatchTopLevel

Spec == Init /\ [][Next]_vars

(***************************************************************************)
(* SpecRetry: one call of retry for every attempts in 1..MaxAttempts and   *)
(* every behaviour of fn over that many invocations.                       *)
(***************************************************************************)
FnOutcomes == {Raise("err"), Return(PyNone), Return(Str("x")), Return(Str("y"))}

RetryInputs ==
    UNION {{[attempts |-> a, fn |-> f] : f \in [1..a -> FnOutcomes]} :
           a \in 1..MaxAttempts}

NotRun == [ran |-> FALSE]

InitRetry ==
    /\ retryIn \in RetryInputs
    /\ retryOut = NotRun
    /\ dedupeIn = <<>>
    /\ dedupeOut = NotRun
    /\ PipelineIdle
    /\ SinksIdle

CallRetry ==
    /\ retryOut = NotRun
    /\ retryOut' = [ran |-> TRUE, r |-> retry(retryIn.fn, retryIn.attempts)]
    /\ UNCHANGED <<sinkVars, retryIn, dedupeIn, dedupeOut, run, netCalls, pc, exit, cacheVars,
                   metaVars, fastaVars, last, loadVars>>

NextRetry == CallRetry

SpecRetry == InitRetry /\ [][NextRetry]_vars

(***************************************************************************)
(* SpecDedupe: one call of deduplicate for every list of up to MaxLen      *)
(* records, records without uid included.                                  *)
(***************************************************************************)
DedupeRecords == {Rec(u, v) : u \in Ids \cup {NoUid}, v \in Versions}

DedupeInputs == UNION {[1..n -> DedupeRecords] : n \in 0..MaxLen}

InitDedupe ==
    /\ dedupeIn \in DedupeInputs
    /\ dedupeOut = NotRun
    /\ retryIn = [attempts |-> 1, fn |-> <<Raise("err")>>]
    /\ retryOut = NotRun
    /\ PipelineIdle
    /\ SinksIdle

CallDedupe ==
    /\ dedupeOut = NotRun
    /\ dedupeOut' = [ran |-> TRUE, out |-> deduplicate(dedupeIn)]
    /\ UNCHANGED <<sinkVars, retryIn, retryOut, dedupeIn, run, netCalls, pc, exit, cacheVars,
                   metaVars, fastaVars, last, loadVars>>

NextDedupe == CallDedupe

SpecDedupe == InitDedupe /\ [][NextDedupe]_vars

(***************************************************************************)
(* SpecLoad: the loaders are called again and again with any two lists of  *)
(* up to MaxBatch items.  The records have a uid, as those deduplicate     *)
(* passes have.  The two stores share nothing: a behaviour loads into one  *)
(* of them, and goes on for as long as its loads succeed.                  *)
(***************************************************************************)
LoadRecords == {Rec(u, v) : u \in Ids, v \in Versions}
LoadPayloads == {[uid |-> u, fasta |-> f] : u \in Ids, f \in FastaValues}
MetadataLists == UNION {[1..n -> LoadRecords] : n \in 0..MaxBatch}
FastaLists == UNION {[1..n -> LoadPayloads] : n \in 0..MaxBatch}

NotLoaded == [t |-> "not_loaded"]

\* what a load of the two lists gives for uid: the last record of that uid
\* and the fasta of the last payload of that uid, None when there is none
Given(metadata, fastaData, uid) ==
    LET recAt == {j \in 1..Len(metadata) : metadata[j].uid = uid}
        payAt == {j \in 1..Len(fastaData) : fastaData[j].uid = uid}
        top(S) == CHOOSE j \in S : \A h \in S : h <= j
    IN  IF recAt = {} THEN NotLoaded
        ELSE [metadata |-> metadata[top(recAt)],
              fasta |-> IF payAt = {} THEN PyNone
                        ELSE fastaData[top(payAt)].fasta]

LatestAfter(metadata, fastaData) ==
    [u \in Ids |-> IF Given(metadata, fastaData, u) = NotLoaded THEN latest[u]
                   ELSE Given(metadata, fastaData, u)]

ReplacedBy(metadata, fastaData) ==
    {u \in Ids : /\ latest[u] # NotLoaded
                 /\ Given(metadata, fastaData, u) # NotLoaded
                 /\ Given(metadata, fastaData, u).metadata # latest[u].metadata}

InitLoad ==
    /\ PureIdle
    /\ PipelineIdle
    /\ sink \in {"mysql", "es"}
    /\ table = {}
    /\ index = {}
    /\ latest = [u \in Ids |-> NotLoaded]
    /\ allOk = TRUE
    /\ replaced = {}

\* loadToMySQLFull(metadata, fastaData); nothing is stored unless the last
\* conn.commit() is reached
CallLoadToMySQLFull ==
    /\ sink = "mysql"
    /\ allOk
    /\ \E metadata \in MetadataLists, fastaData \in FastaLists,
          failAt \in MySQLFailPoints :
          IF loadToMySQLFull(failAt).committed
          THEN /\ table' = MySQLLoop(table, metadata, fastaMap(fastaData), 1)
               /\ latest' = LatestAfter(metadata, fastaData)
               /\ replaced' = ReplacedBy(metadata, fastaData)
               /\ allOk' = allOk
          ELSE /\ allOk' = FALSE
               /\ replaced' = {}
               /\ UNCHANGED <<table, latest>>
    /\ UNCHANGED <<sink, index, pureVars, run, pc, exit, netCalls, cacheVars,
                   metaVars, fastaVars, last, loadVars>>

\* loadToElasticSearch(metadata, fastaData)
CallLoadToElasticSearch ==
    /\ sink = "es"
    /\ allOk
    /\ \E metadata \in MetadataLists, fastaData \in FastaLists,
          outcome \in ESOutcomes :
          LET ops == BulkOps(metadata, fastaData) IN
          CASE outcome = "ok" ->
                 /\ index' = BulkLoop(index, ops, {}, 1)
                 /\ latest' = LatestAfter(metadata, fastaData)
                 /\ replaced' = ReplacedBy(metadata, fastaData)
                 /\ allOk' = allOk
            [] outcome = "bulk_errors" ->
                 /\ \E failed \in SUBSET (1..Len(ops)) :
                       /\ failed # {}
                       /\ index' = BulkLoop(index, ops, failed, 1)
                 /\ allOk' = FALSE
                 /\ replaced' = {}
                 /\ UNCHANGED latest
            [] OTHER ->
                 /\ allOk' = FALSE
                 /\ replaced' = {}
                 /\ UNCHANGED <<index, latest>>
    /\ UNCHANGED <<sink, table, pureVars, run, pc, exit, netCalls, cacheVars,
                   metaVars, fastaVars, last, loadVars>>

NextLoad ==
    \/ CallLoadToMySQLFull
    \/ CallLoadToElasticSearch

SpecLoad == InitLoad /\ [][NextLoad]_vars

(***************************************************************************)
(* Claims about the pipeline, under Spec.                                  *)
(***************************************************************************)
\* C1 as stated: when the cache entry of an id exists and reading it fails,
\* the fetcher (metadata or sequence) performs the network fetch for the id.
C1_ReadFailureFallsThrough ==
    (last.kind # "none" /\ last.existed /\ last.read_failed) =>
        last.r.calls >= 1

\* C2 as stated: a run that reached the load phase has invoked both loaders
\* by the time it ends, whatever failed in the relational loader.
C2_BothLoadersInvoked ==
    (pc = "idle" /\ mysql.invoked) => es.invoked

\* C3 as stated: loadToMySQLFull returns normally, whatever fails inside it.
C3_MySQLNeverPropagates ==
    mysql.invoked => ~mysql.raised

\* C6: fetchFasta's results hold one entry per id handled, the j-th entry
\* carrying the j-th id; when it returns, one per input id; the fasta of an
\* id for which every attempt failed (or nothing was delivered) is "".
C6_FastaNeverOmits ==
    /\ Len(results) = Len(fdone)
    /\ \A j \in 1..Len(results) : results[j].uid = fids[j]
    /\ mysql.invoked => Len(results) = Len(fids)
    /\ \A j \in 1..Len(results) :
          fdone[j].how \in {"exhausted", "empty", "read_failed"} =>
              results[j].fasta = Str("")
    /\ (last.kind = "fasta" /\ last.r.exhausted) =>
          /\ last.r.calls = Attempts
          /\ results[Len(results)] = [uid |-> last.id, fasta |-> Str("")]

C6_Witness ==
    /\ mysql.invoked
    /\ Len(fids) = 2
    /\ fdone[1].how = "net"
    /\ fdone[2].how = "exhausted"
    /\ results[1].fasta = Str("s1")
    /\ results[2] = [uid |-> fids[2], fasta |-> Str("")]

\* the ids handled so far whose record was obtained, with the record
Obtained(done) == SelectSeq(done, LAMBDA d : d.how \in {"cache", "net"})

\* C7: fetchMetadata's records are, in input order, exactly the records
\* obtained from the cache or from a fetch that succeeded; an id whose
\* attempts are exhausted adds nothing and raises nothing, and the loop goes
\* on to the last id.
C7_MetadataSkipsFailedIds ==
    /\ records = [j \in 1..Len(Obtained(mdone)) |-> Obtained(mdone)[j].val]
    /\ \A j \in 1..Len(mdone) :
          mdone[j].how \in {"cache", "net"} => mdone[j].val.uid = ids[j]
    /\ (last.kind = "meta" /\ last.r.exhausted) =>
          /\ mdone[Len(mdone)].how = "exhausted"
          /\ pc # "raised"
          /\ pc = "idle" => exit = "no_metadata"
    /\ pc \in {"fasta", "es"} => Len(mdone) = Len(ids)

C7_Witness ==
    /\ pc = "fasta"
    /\ ids = <<"A", "B">>
    /\ mdone[1].how = "exhausted"
    /\ mdone[2].how = "net"
    /\ records = <<mdone[2].val>>

\* the cache file of the kind and id the last iteration was about
CacheOf(kind, id) == IF kind = "meta" THEN metaCache[id] ELSE fastaCache[id]

C12_CacheWrittenOnce ==
    [][\A i \in Ids :
          /\ metaCache[i] # Absent => metaCache'[i] = metaCache[i]
          /\ fastaCache[i] # Absent => fastaCache'[i] = fastaCache[i]]_vars

C12_Witness ==
    /\ run = 2
    /\ last.kind = "fasta"
    /\ last.before = Str("s1")
    /\ fastaCache[last.id] = Str("s1")
    /\ metaCache[last.id] = Corrupt

\* the payload list holds exactly one payload for each identifier of the
\* record list and none for any other identifier
OnePayloadPerRecord(metadata, fastaData) ==
    /\ \A j \in 1..Len(metadata) :
          Cardinality({h \in 1..Len(fastaData) :
                          fastaData[h].uid = metadata[j].uid}) = 1
    /\ \A h \in 1..Len(fastaData) :
          \E j \in 1..Len(metadata) : metadata[j].uid = fastaData[h].uid
    /\ Len(fastaData) = Len(metadata)

\* C13: a loader is invoked with a payload list holding exactly one payload
\* per identifier of the deduplicated record list and no other; sequences
\* are fetched only after deduplicate, for its identifiers; both loaders
\* are given the same two lists.
C13_LoadersGetMatchingLists ==
    /\ mysql.invoked => OnePayloadPerRecord(mysql.metadata, mysql.fastaData)
    /\ mysql.invoked => mysql.metadata = uniqueMetadata
    /\ es.invoked =>
          /\ mysql.invoked
          /\ es.metadata = mysql.metadata
          /\ es.fastaData = mysql.fastaData
    /\ fdone # <<>> =>
          /\ pc \notin {"search", "meta"}
          /\ \A j \in 1..Len(fdone) :
                \E h \in 1..Len(uniqueMetadata) : uniqueMetadata[h].uid = fids[j]

C13_Witness ==
    /\ es.invoked
    /\ ids = <<"A", "B">>
    /\ mdone[1].how = "exhausted"
    /\ Len(es.metadata) = 1
    /\ es.metadata[1].uid = "B"
    /\ Len(mysql.fastaData) = 1
    /\ es.fastaData[1].uid = "B"

\* C14: when the search returns no ids, the next step ends the run normally
\* (exit no_metadata, nothing raised) with no summary or sequence request,
\* no cache write and no loader invoked.
C14_EmptySearchHalts ==
    [][(pc = "meta" /\ ids = <<>>) =>
          /\ pc' = "idle"
          /\ exit' = "no_metadata"
          /\ mdone' = <<>> /\ fdone' = <<>> /\ last' = NoIteration
          /\ mysql' = NotInvoked /\ es' = NotInvoked
          /\ UNCHANGED cacheVars]_vars

C14_Witness ==
    /\ run >= 1
    /\ pc = "idle"
    /\ exit = "no_metadata"
    /\ ids = <<>>
    /\ ~mysql.invoked
    /\ ~es.invoked

\* C15 as stated: when loadToMySQLFull exits, every connection and cursor it
\* opened has been closed.
C15_ConnectionsReleased ==
    mysql.invoked =>
        /\ mysql.conn_opened => mysql.conn_closed
        /\ mysql.cursor_opened => mysql.cursor_closed

\* C17: an error raised out of main is caught by __main__, which logs it;
\* the run ends as "failed" and nothing propagates further.
C17_TopLevelCatches ==
    [][pc = "raised" => (pc' = "idle" /\ exit' = "failed")]_vars

C17_Witness ==
    /\ pc = "idle"
    /\ exit = "failed"
    /\ es.invoked
    /\ es.raised

\* the step is an iteration of the metadata loop, of the sequence loop
MetaStep == Len(mdone') = Len(mdone) + 1
FastaStep == Len(fdone') = Len(fdone) + 1

\* C19: a cache file comes into being only in the iteration of its id and
\* kind, after a network fetch that returned a non-empty value; an iteration
\* that finds no cache file always goes to the network, and when its fetch
\* fails (every attempt raised, or an empty value) there is still no file.
C19_FailedFetchLeavesNoEntry ==
    [][/\ \A i \in Ids :
            /\ (metaCache[i] = Absent /\ metaCache'[i] # Absent) =>
                  /\ MetaStep /\ last'.kind = "meta" /\ last'.id = i
                  /\ last'.r.calls >= 1 /\ Truthy(last'.r.result)
            /\ (fastaCache[i] = Absent /\ fastaCache'[i] # Absent) =>
                  /\ FastaStep /\ last'.kind = "fasta" /\ last'.id = i
                  /\ last'.r.calls >= 1 /\ Truthy(last'.r.result)
       /\ (MetaStep /\ metaCache[last'.id] = Absent) =>
            /\ last'.r.calls >= 1
            /\ ~Truthy(last'.r.result) =>
                  /\ metaCache'[last'.id] = Absent
                  /\ records' = records
       /\ (FastaStep /\ fastaCache[last'.id] = Absent) =>
            /\ last'.r.calls >= 1
            /\ ~Truthy(last'.r.result) =>
                  /\ fastaCache'[last'.id] = Absent
                  /\ last'.out = Str("")]_vars

C19_Witness ==
    /\ run = 2
    /\ last.kind = "meta"
    /\ last.before = Absent
    /\ last.r.exhausted
    /\ last.r.calls = Attempts
    /\ metaCache[last.id] = Absent
    /\ records = <<>>

\* the last iteration went to the network and the first invocation that
\* did not raise returned an empty value
EmptyFetch ==
    \/ last.kind = "meta" /\ mdone[Len(mdone)].how = "empty"
    \/ last.kind = "fasta" /\ fdone[Len(fdone)].how = "empty"

\* C20: when the network operation returns an empty value without raising,
\* retry returns at that invocation (no further attempt, no delay after it,
\* no "all attempts failed") and the caller does what it does after
\* exhausted retries: metadata id skipped, sequence "", nothing cached.
C20_EmptyResultNotRetried ==
    EmptyFetch =>
        /\ ~last.r.exhausted
        /\ ~Truthy(last.r.result)
        /\ last.r.calls = last.r.warnings + 1
        /\ last.r.delays = last.r.warnings
        /\ CacheOf(last.kind, last.id) = Absent
        /\ last.kind = "meta" =>
              Len(records) = Len(Obtained(SubSeq(mdone, 1, Len(mdone) - 1)))
        /\ last.kind = "fasta" =>
              /\ last.out = Str("")
              /\ results[Len(results)] = [uid |-> last.id, fasta |-> Str("")]

C20_Witness ==
    /\ last.kind = "fasta"
    /\ fdone[Len(fdone)].how = "empty"
    /\ last.r.calls = 1
    /\ last.r.delays = 0
    /\ last.r.result = Str("")
    /\ fastaCache[last.id] = Absent
    /\ results[Len(results)].fasta = Str("")

\* an upper bound of the steps main has left: one per id still to fetch,
\* one per loader, one for the top-level handler
StepsLeft ==
    CASE pc = "idle" -> 0
      [] pc = "raised" -> 1
      [] pc = "es" -> 2
      [] pc = "fasta" -> 3 + (Len(fids) - Len(fdone))
      [] pc = "meta" -> 4 + Len(ids) + (Len(ids) - Len(mdone))
      [] pc = "search" -> 5 + 2 * MaxIds

\* C18: a started run ends: every step of it lowers a bound of the steps
\* left.  A step (the search, one id of one payload kind) makes at most
\* `attempts` network calls; fetchMetadata makes at most 1 + attempts *
\* (searched ids) of them and fetchFasta at most attempts * (surviving ids),
\* which main calls once each: 1 + attempts * (searched + surviving) a run.
C18_RunTerminatesWithinBudget ==
    [][/\ pc # "idle" => (StepsLeft' < StepsLeft /\ StepsLeft' >= 0)
       /\ netCalls' - netCalls <= Attempts
       /\ pc' = "fasta" => netCalls' <= Attempts * Len(fids')
       /\ pc' # "fasta" => netCalls' <= 1 + Attempts * Len(ids')]_vars

C18_Witness ==
    /\ pc = "fasta"
    /\ Len(ids) = 2
    /\ Len(fids) = 2
    /\ Len(fdone) = Len(fids)
    /\ fdone[2].how = "exhausted"
    /\ netCalls = Attempts * Len(fids)

\* the record a reader of the metadata column gets back from its JSON text
JsonLoads(text) == Rec(text.uid, text.v)

\* C16: after loads that all succeeded, a store holds for each uid at most
\* one row or document: none when no load held the uid, else the metadata
\* and the sequence that the last load holding it gave.
C16_LoadIsUpsert ==
    allOk =>
        \A u \in Ids :
            LET rows == {r \in table : r.uid = u}
                docs == {d \in index : d.id = u}
            IN  /\ Cardinality(rows) <= 1
                /\ Cardinality(docs) <= 1
                /\ latest[u] = NotLoaded => (rows = {} /\ docs = {})
                /\ (latest[u] # NotLoaded /\ sink = "mysql") =>
                      \E r \in rows : /\ JsonLoads(r.metadata) = latest[u].metadata
                                      /\ r.fasta = latest[u].fasta
                /\ (latest[u] # NotLoaded /\ sink = "es") =>
                      \E d \in docs : /\ d.source.metadata = latest[u].metadata
                                      /\ d.source.fasta = latest[u].fasta

C16_Witness ==
    /\ sink = "mysql"
    /\ allOk
    /\ "A" \in replaced
    /\ latest["A"].metadata = Rec("A", 2)
    /\ \E r \in table : r.uid = "A" /\ JsonLoads(r.metadata) = Rec("A", 2)
    /\ Cardinality({r \in table : r.uid = "A"}) = 1

(***************************************************************************)
(* Claims about retry, under SpecRetry.                                    *)
(***************************************************************************)
\* fn raises on every one of its `attempts` invocations
AlwaysRaises(in) == \A n \in 1..in.attempts : in.fn[n].k = "raise"

\* fn raises on its first k invocations and returns on invocation k + 1
FailsThenReturns(in, k) ==
    /\ k < in.attempts
    /\ \A n \in 1..k : in.fn[n].k = "raise"
    /\ in.fn[k + 1].k = "return"

\* C4: when fn raises on every invocation, retry invokes fn exactly
\* `attempts` times, sleeps exactly `attempts - 1` times (not after the last
\* failed attempt) and returns None.
C4_ExhaustedRetry ==
    (retryOut.ran /\ AlwaysRaises(retryIn)) =>
        /\ retryOut.r.calls = retryIn.attempts
        /\ retryOut.r.delays = retryIn.attempts - 1
        /\ retryOut.r.warnings = retryIn.attempts
        /\ retryOut.r.exhausted
        /\ retryOut.r.result = PyNone

C4_Witness ==
    /\ retryOut.ran
    /\ AlwaysRaises(retryIn)
    /\ retryIn.attempts = 5
    /\ retryOut.r.delays = 4

\* C5: when fn raises on its first k < attempts invocations and returns a
\* value on invocation k + 1, retry returns that value after exactly k + 1
\* invocations, k warnings and k sleeps; fn is not invoked after it returned.
C5_FirstSuccess ==
    retryOut.ran =>
        \A k \in 0..(retryIn.attempts - 1) :
            FailsThenReturns(retryIn, k) =>
                /\ retryOut.r.result = retryIn.fn[k + 1].val
                /\ retryOut.r.calls = k + 1
                /\ retryOut.r.warnings = k
                /\ retryOut.r.delays = k
                /\ ~retryOut.r.exhausted

C5_Witness ==
    /\ retryOut.ran
    /\ retryIn.attempts = 5
    /\ FailsThenReturns(retryIn, 4)
    /\ retryOut.r.result = Str("x")
    /\ retryOut.r.calls = 5

(***************************************************************************)
(* Claims about deduplicate, under SpecDedupe.                             *)
(***************************************************************************)
UidsOf(recs) == [j \in 1..Len(recs) |-> recs[j].uid]

\* the identifiers occurring in a record list
UidSet(recs) == {recs[j].uid : j \in 1..Len(recs)} \ {NoUid}

\* the index of the last record of the list that carries the identifier
LastIndexOf(recs, uid) ==
    CHOOSE n \in 1..Len(recs) :
        /\ recs[n].uid = uid
        /\ \A m \in (n + 1)..Len(recs) : recs[m].uid # uid

\* the indices of the recs that are the first of their identifier
FirstOccurrences(recs) ==
    SelectSeq([n \in 1..Len(recs) |-> n],
              LAMBDA n : /\ recs[n].uid # NoUid
                         /\ \A m \in 1..(n - 1) : recs[m].uid # recs[n].uid)

\* C8: the output holds exactly one record per distinct identifier of the
\* input, and it is the last record of that identifier in input order.
C8_OnePerIdLastWins ==
    dedupeOut.ran =>
        /\ Len(dedupeOut.out) = Cardinality(UidSet(dedupeIn))
        /\ \A u \in UidSet(dedupeIn) :
              \E j \in 1..Len(dedupeOut.out) :
                  /\ dedupeOut.out[j] = dedupeIn[LastIndexOf(dedupeIn, u)]
                  /\ \A h \in 1..Len(dedupeOut.out) :
                        dedupeOut.out[h].uid = u => h = j

C8_Witness ==
    /\ dedupeOut.ran
    /\ dedupeIn = <<Rec("A", 1), Rec("B", 1), Rec("A", 2)>>
    /\ Len(dedupeOut.out) = 2
    /\ \E j \in 1..2 : dedupeOut.out[j] = Rec("A", 2)

\* identifiers X, Y, X in this order, the two X recs being different
IsXYX(recs) ==
    /\ Len(recs) = 3
    /\ recs[1].uid # NoUid
    /\ recs[2].uid # NoUid
    /\ recs[1].uid = recs[3].uid
    /\ recs[1].uid # recs[2].uid
    /\ recs[1] # recs[3]

\* C9 as stated: for identifiers A, B, A the output is [B, A-v2].
C9_AsStated ==
    (dedupeOut.ran /\ IsXYX(dedupeIn)) =>
        dedupeOut.out = <<dedupeIn[2], dedupeIn[3]>>

\* C9 amended: for identifiers A, B, A the output is [A-v2, B]: the kept
\* last record of A stands where A first occurred, before B.
C9_KeptAtFirstPosition ==
    (dedupeOut.ran /\ IsXYX(dedupeIn)) =>
        dedupeOut.out = <<dedupeIn[3], dedupeIn[2]>>

C9_Witness ==
    /\ dedupeOut.ran
    /\ IsXYX(dedupeIn)
    /\ dedupeIn[1] = Rec("A", 1)
    /\ dedupeIn[3] = Rec("A", 2)
    /\ dedupeOut.out = <<Rec("A", 2), Rec("B", 1)>>

\* C10: the identifiers of the output are the distinct identifiers of the
\* input in the order of their first occurrence.
C10_FirstOccurrenceOrder ==
    dedupeOut.ran =>
        UidsOf(dedupeOut.out) =
            [j \in 1..Len(FirstOccurrences(dedupeIn)) |->
                dedupeIn[FirstOccurrences(dedupeIn)[j]].uid]

C10_Witness ==
    /\ dedupeOut.ran
    /\ UidsOf(dedupeIn) = <<"B", "A", "B">>
    /\ UidsOf(dedupeOut.out) = <<"B", "A">>

====
